---- MODULE Spec2Model ----
(***************************************************************************)
(* Model of local_processor.py: the Processor object (statistics cache,    *)
(* ranking index, archetype inference, pick scorer, pack report) driven by *)
(* "pack shown" and "card picked" events.                                  *)
(*                                                                         *)
(* Units.  Python floats are modelled as scaled integers:                  *)
(*   avg_seen and signal scores     in hundredths   (2.10  -> 210)         *)
(*   win rates and their bonuses    in 1/20000      (0.0041 -> 82)         *)
(* A failed dictionary lookup (KeyError) is modelled by a ...Fails         *)
(* predicate next to the operator that performs the lookup.                *)
(***************************************************************************)
EXTENDS Integers, Sequences, FiniteSets, TLC

VARIABLES
    phase,           \* "boot" before Processor(), "running" after, "crashed" if __init__ raised
    file_present,    \* resources/rankings.json exists
    mtime,           \* its modification time (days)
    snapshot,        \* its content
    now,             \* datetime.now() (days)
    requests,        \* the remote fetches issued, in order (the colors parameter)
    raw_rankings,    \* self.raw_rankings
    ranking_lookup,  \* self.ranking_lookup
    draft_id,        \* self.draft_id
    picks,           \* self.picks, a dict: the entries in insertion order
    signals,         \* self.signals, a defaultdict(int): the keys present
    doc,             \* the event handled last
    outcome,         \* how its handler ended: "ok", or the place where it raised
    inventory,       \* the inventory table the handler printed (its rows), if it printed one
    pre              \* draft_id, picks and signals on entry to that handler

vars == <<phase, file_present, mtime, snapshot, now, requests, raw_rankings, ranking_lookup,
          draft_id, picks, signals, doc, outcome, inventory, pre>>

-----------------------------------------------------------------------------
(* Bounds of the model *)

MaxPicks == 2          \* pick keys offered when the archetype inference is explored
MaxSignal == 200       \* a pack is processed while the signal total is at most this
MaxTime == 8           \* the clock and the snapshot's mtime range over 0..MaxTime (days)

-----------------------------------------------------------------------------
(* Program constants *)

FreshDays == 5         \* datetime.timedelta(days=5)
MinGames == 200        \* ever_drawn_game_count > 200
FinalPack == 3         \* pack == 3
FinalPick == 14        \* pick == 14

None == "None"
NoReport == [printed |-> FALSE, rows |-> <<>>]
Table(ids) == [printed |-> TRUE, rows |-> ids]
EmptyDict == [k \in {} |-> 0]

colors == {"w", "u", "b", "r", "g"}

upper == [w |-> "W", u |-> "U", b |-> "B", r |-> "R", g |-> "G"]

COLOR_BONUSES == [W |-> 82, U |-> 84, G |-> 0, B |-> 172, R |-> 360]

ARCHETYPE_BONUSES ==
    [XX |-> 0, WU |-> 0, WB |-> 0, WR |-> 0, WG |-> 0, UB |-> 0, UR |-> 0, UG |-> 0,
     BR |-> 0, BG |-> 0, RG |-> 0]

worth == [b \in 1..15 |->
            CASE b = 1 -> 15 [] b = 2 -> 10 [] b = 3 -> 8 [] b = 4 -> 3
              [] b = 5 -> 2 [] b = 6 -> 1 [] OTHER -> 0]

muls_dip == (2 :> 0) @@ (3 :> 20) @@ (4 :> 35) @@ (5 :> 50) @@ (6 :> 70) @@ (7 :> 85)
        @@ (8 :> 100) @@ (9 :> 130) @@ (10 :> 150) @@ (11 :> 170) @@ (12 :> 180)
        @@ (13 :> 200) @@ (14 :> 20) @@ (15 :> 250)

muls == (2 :> 0) @@ (3 :> 20) @@ (4 :> 35) @@ (5 :> 50) @@ (6 :> 70) @@ (7 :> 85)
        @@ (8 :> 100) @@ (9 :> 130) @@ (10 :> 150) @@ (11 :> 170) @@ (12 :> 180)
        @@ (13 :> 200) @@ (14 :> 220) @@ (15 :> 250)

archetypes == <<"WU", "WB", "WR", "WG", "UB", "UR", "UG", "BR", "BG", "RG", "XX">>

\* list(s) / set(s) of the strings the program splits into characters
chars == [WU |-> <<"W", "U">>, WB |-> <<"W", "B">>, WR |-> <<"W", "R">>,
          WG |-> <<"W", "G">>, UB |-> <<"U", "B">>, UR |-> <<"U", "R">>,
          UG |-> <<"U", "G">>, BR |-> <<"B", "R">>, BG |-> <<"B", "G">>,
          RG |-> <<"R", "G">>, XX |-> <<"X", "X">>,
          W |-> <<"W">>, U |-> <<"U">>, B |-> <<"B">>, R |-> <<"R">>, G |-> <<"G">>]

Range(s) == {s[i] : i \in 1..Len(s)}

\* archetypes[:-1]
two_color_archetypes == SubSeq(archetypes, 1, Len(archetypes) - 1)

-----------------------------------------------------------------------------
(* resources/database.json: card id -> name and mana cost *)

db == (1 :> [name |-> "Ca", cost |-> <<"w">>])
   @@ (2 :> [name |-> "Cb", cost |-> <<"1", "u">>])
   @@ (3 :> [name |-> "Cc", cost |-> <<"b", "b">>])
   @@ (4 :> [name |-> "Cd", cost |-> <<"2">>])
   @@ (5 :> [name |-> "Ce", cost |-> <<"u", "r", "r">>])

\* self.card(card_id)
cardFails(card_id) == card_id \notin DOMAIN db
card(card_id) == db[card_id]

-----------------------------------------------------------------------------
(* The statistics the program is given: the snapshot found on disk and the *)
(* answers of the remote ratings source.  One record per card and          *)
(* archetype, with the fields the program reads.                           *)

StatColor == [Ca |-> "W", Cb |-> "U", Cc |-> "B", Cd |-> "", Ce |-> "UR"]
StatAvgSeen == [Ca |-> 210, Cb |-> 450, Cc |-> 700, Cd |-> 1630, Ce |-> 120]
StatGames == [Ca |-> 201, Cb |-> 200, Cc |-> 500, Cd |-> 300, Ce |-> 400]
StatEverWR == [Ca |-> 11000, Cb |-> 11600, Cc |-> 10400, Cd |-> 9000, Ce |-> 12000]

Stat(name, archetype) ==
    [name |-> name,
     color |-> StatColor[name],
     avg_seen |-> StatAvgSeen[name],
     ever_drawn_game_count |->
         IF archetype = "XX" /\ name = "Ca" THEN 150
         ELSE IF archetype = "WB" /\ name = "Cc" THEN 200
         ELSE StatGames[name],
     ever_drawn_win_rate |-> StatEverWR[name],
     never_drawn_win_rate |-> 10000,
     drawn_improvement_win_rate |-> StatEverWR[name] - 10000,
     game_count |-> IF archetype = "XX" THEN 4000 ELSE 400]

\* a ratings answer listing the cards `names` (in this order) for `archetype`
Ratings(names, archetype) == [i \in 1..Len(names) |-> Stat(names[i], archetype)]

\* the snapshot on disk: Ce has no aggregate record
DiskRankings ==
    [a \in Range(archetypes) |->
        IF a = "XX" THEN Ratings(<<"Ca", "Cb", "Cc", "Cd">>, a)
        ELSE Ratings(<<"Ca", "Cb", "Cc", "Cd", "Ce">>, a)]

\* the remote source now: Cc has dropped out of every archetype
RemoteRankings ==
    [a \in Range(archetypes) |->
        IF a = "XX" THEN Ratings(<<"Cd", "Ca", "Cb">>, a)
        ELSE Ratings(<<"Cd", "Ca", "Cb", "Ce">>, a)]

\* the remote source on a bad day: an aggregate record without its WU record
RemoteRankingsGap ==
    [a \in Range(archetypes) |->
        IF a = "WU" THEN Ratings(<<"Ca", "Cb">>, a)
        ELSE Ratings(<<"Ca", "Cb", "Cc">>, a)]

RemoteAnswers == {RemoteRankings, RemoteRankingsGap}

-----------------------------------------------------------------------------
(* Processor.process_rankings *)

RECURSIVE SumSeq(_)
SumSeq(s) == IF s = <<>> THEN 0 ELSE Head(s) + SumSeq(Tail(s))

\* the last item of `items` named `name`: later assignments overwrite earlier ones
LastNamed(items, name) ==
    items[CHOOSE i \in 1..Len(items) :
            /\ items[i].name = name
            /\ \A j \in (i + 1)..Len(items) : items[j].name # name]

Names(items) == {items[i].name : i \in 1..Len(items)}

\* sum([COLOR_BONUSES[color] for color in list(item['color'])]) / len(item['color'])
\* (exact in the model's unit for identities of one or two colors)
color_bonus(item) ==
    IF item.color # ""
    THEN LET letters == chars[item.color]
         IN  SumSeq([i \in 1..Len(letters) |-> COLOR_BONUSES[letters[i]]]) \div Len(letters)
    ELSE 0

\* the items of a two-color archetype after the loop body ran on them
processed_pair(raw, color_pair) ==
    [i \in 1..Len(raw[color_pair]) |->
        [raw[color_pair][i] EXCEPT
            !.drawn_improvement_win_rate = @ + ARCHETYPE_BONUSES[color_pair]]]

\* the XX branch raises: a record missing from a two-color archetype (KeyError)
\* or an aggregate game count of zero (ZeroDivisionError)
process_rankings_fails(raw) ==
    \E i \in 1..Len(raw["XX"]) :
        \/ \E k \in 1..Len(two_color_archetypes) :
              raw["XX"][i].name \notin Names(raw[two_color_archetypes[k]])
        \/ raw["XX"][i].game_count = 0

across_archetype_bonus(raw, item) ==
    SumSeq([k \in 1..Len(two_color_archetypes) |->
              LET archetype == two_color_archetypes[k]
                  rec == LastNamed(processed_pair(raw, archetype), item.name)
              IN  (rec.game_count * ARCHETYPE_BONUSES[archetype]) \div item.game_count])

processed_xx(raw) ==
    [i \in 1..Len(raw["XX"]) |->
        [raw["XX"][i] EXCEPT
            !.drawn_improvement_win_rate =
                @ + color_bonus(raw["XX"][i]) + across_archetype_bonus(raw, raw["XX"][i])]]

\* self.raw_rankings once process_rankings returned: the lookup holds the very
\* items of the raw lists, so the += reaches them too
processed_raw(raw) ==
    [a \in Range(archetypes) |->
        IF a = "XX" THEN processed_xx(raw) ELSE processed_pair(raw, a)]

\* self.ranking_lookup once process_rankings returned
process_rankings(raw) ==
    [a \in Range(archetypes) |->
        [n \in Names(raw[a]) |-> LastNamed(processed_raw(raw)[a], n)]]

-----------------------------------------------------------------------------
(* Processor.get_archetype *)

Values(p) == [i \in 1..Len(p) |-> p[i].card]

\* self.card(pick) raises for a picked card the database does not hold
get_archetype_fails(p) == \E i \in 1..Len(p) : cardFails(p[i].card)

\* every cost symbol of every picked card, in the order counter.update meets them
RECURSIVE Symbols(_)
Symbols(p) == IF p = <<>> THEN <<>> ELSE card(Head(p).card).cost \o Symbols(Tail(p))

\* the keys of a Counter fed `syms`: each symbol once, in first-met order
RECURSIVE CounterKeys(_, _)
CounterKeys(syms, seen) ==
    IF syms = <<>> THEN <<>>
    ELSE IF Head(syms) \in seen THEN CounterKeys(Tail(syms), seen)
    ELSE <<Head(syms)>> \o CounterKeys(Tail(syms), seen \cup {Head(syms)})

Count(syms, key) == Cardinality({i \in 1..Len(syms) : syms[i] = key})

IsColor(key) == key \in colors

\* counter.most_common(n): the keys by falling count, equal counts in key order
\* (sorted(..., reverse=True) is stable), cut to the first n
\* equal counts in reverse key order
RECURSIVE InsertByCount_last(_, _, _)
InsertByCount_last(sorted, key, syms) ==
    IF sorted = <<>> THEN <<key>>
    ELSE IF Count(syms, Head(sorted)) > Count(syms, key)
         THEN <<Head(sorted)>> \o InsertByCount_last(Tail(sorted), key, syms)
         ELSE <<key>> \o sorted

RECURSIVE InsertByCount(_, _, _)
InsertByCount(sorted, key, syms) ==
    IF sorted = <<>> THEN <<key>>
    ELSE IF Count(syms, Head(sorted)) >= Count(syms, key)
         THEN <<Head(sorted)>> \o InsertByCount(Tail(sorted), key, syms)
         ELSE <<key>> \o sorted

RECURSIVE SortByCount(_, _, _)
SortByCount(keys, acc, syms) ==
    IF keys = <<>> THEN acc
    ELSE SortByCount(Tail(keys), InsertByCount(acc, Head(keys), syms), syms)

Prefix(s, n) == SubSeq(s, 1, IF Len(s) < n THEN Len(s) ELSE n)

\* the first n keys met, whatever their counts
most_common_first(keys, syms, n) == Prefix(keys, n)

most_common(keys, syms, n) == Prefix(SortByCount(keys, <<>>, syms), n)

\* the first archetype, from position i on, whose letters are `top`; "XX" if none
\* an archetype that merely contains the colors of `top`
RECURSIVE MatchArchetype_subset(_, _)
MatchArchetype_subset(top, i) ==
    IF i > Len(archetypes) THEN "XX"
    ELSE IF top \subseteq Range(chars[archetypes[i]]) THEN archetypes[i]
    ELSE MatchArchetype_subset(top, i + 1)

RECURSIVE MatchArchetype(_, _)
MatchArchetype(top, i) ==
    IF i > Len(archetypes) THEN "XX"
    ELSE IF Range(chars[archetypes[i]]) = top THEN archetypes[i]
    ELSE MatchArchetype(top, i + 1)

Upper(keys) == {upper[keys[i]] : i \in 1..Len(keys)}

\* the Counter of the cost symbols `syms`, cut to the colors, and its two most common
top_two_of(syms) == Upper(most_common(SelectSeq(CounterKeys(syms, {}), IsColor), syms, 2))

top_two_colors(p) == top_two_of(Symbols(p))

get_archetype(p) == MatchArchetype(top_two_colors(p), 1)

-----------------------------------------------------------------------------
(* Processor.ranking, Processor.calc_score *)

\* the archetype map ranking() reads: 'XX' if default, else get_archetype()
RankingMap(lookup, p, default) == IF default THEN lookup["XX"] ELSE lookup[get_archetype(p)]

rankingFails(lookup, p, card_id, default) ==
    \/ cardFails(card_id)
    \/ ~default /\ get_archetype_fails(p)
    \/ card(card_id).name \notin DOMAIN RankingMap(lookup, p, default)

ranking(lookup, p, card_id, default) == RankingMap(lookup, p, default)[card(card_id).name]

\* int(avg_seen): truncation toward zero
int(x) == IF x >= 0 THEN x \div 100 ELSE -((-x) \div 100)

calc_score_fails(pick, avg_seen) == int(avg_seen) \notin DOMAIN worth \/ pick \notin DOMAIN muls

\* the bucket rounded to nearest instead of truncated
calc_score_round(pick, avg_seen) == worth[(avg_seen + 50) \div 100] * muls[pick]

calc_score(pick, avg_seen) == worth[int(avg_seen)] * muls[pick]

-----------------------------------------------------------------------------
(* sorted(ids, key=..., reverse=...): a stable sort by the key function `key` *)

RECURSIVE InsertByKey(_, _, _, _)
InsertByKey(sorted, x, key, reverse) ==
    IF sorted = <<>> THEN <<x>>
    ELSE IF (IF reverse THEN key[Head(sorted)] >= key[x] ELSE key[Head(sorted)] <= key[x])
         THEN <<Head(sorted)>> \o InsertByKey(Tail(sorted), x, key, reverse)
         ELSE <<x>> \o sorted

RECURSIVE SortByKey(_, _, _, _)
SortByKey(ids, acc, key, reverse) ==
    IF ids = <<>> THEN acc
    ELSE SortByKey(Tail(ids), InsertByKey(acc, Head(ids), key, reverse), key, reverse)

sorted(ids, key, reverse) == SortByKey(ids, <<>>, key, reverse)

-----------------------------------------------------------------------------
(* Processor.print_card, Processor.print_by_gih_winrate, Processor.print_inventory *)

\* print_card raises when the card has no aggregate record (the archetype
\* record was read before, by the caller's sort or filter)
print_card_fails(lookup, p, card_id) ==
    \/ rankingFails(lookup, p, card_id, FALSE)
    \/ rankingFails(lookup, p, card_id, TRUE)

\* the cards of pack["card_ids"] with more than MinGames games in the inferred archetype
enough_games(lookup, p, ids) ==
    LET Keep(card_id) == ranking(lookup, p, card_id, FALSE).ever_drawn_game_count > MinGames
    IN  SelectSeq(ids, Keep)

print_by_gih_winrate_fails(lookup, p, ids) ==
    \/ \E i \in 1..Len(ids) : rankingFails(lookup, p, ids[i], FALSE)
    \/ LET cards == enough_games(lookup, p, ids)
       IN  \E i \in 1..Len(cards) : print_card_fails(lookup, p, cards[i])

\* the rows of the table it prints, as card ids
print_by_gih_winrate(lookup, p, ids) ==
    LET cards == enough_games(lookup, p, ids)
        key == [c \in Range(cards) |-> ranking(lookup, p, c, FALSE).ever_drawn_win_rate]
    IN  sorted(cards, key, TRUE)

\* pack == 3 or pick == 14
is_final_pick_or(pack, pick) == pack = FinalPack \/ pick = FinalPick

\* pack == 3 and pick == 14
is_final_pick(pack, pick) == pack = FinalPack /\ pick = FinalPick

-----------------------------------------------------------------------------
(* Processor.process_pack *)

Sig(sig, color) == IF color \in DOMAIN sig THEN sig[color] ELSE 0

\* self.signals[color] += score
add_signal(sig, color, score) ==
    [k \in DOMAIN sig \cup {color} |-> Sig(sig, k) + (IF k = color THEN score ELSE 0)]

\* the for loop over the sorted cards: the signals when it ends, and where it raised
RECURSIVE pack_loop(_, _, _, _, _)
pack_loop(lookup, p, sig, d, ids) ==
    IF ids = <<>> THEN [signals |-> sig, outcome |-> "ok"]
    ELSE LET card_id == Head(ids)
             rec == ranking(lookup, p, card_id, FALSE)
             scored == d.pack_number = 1
         IN  IF scored /\ calc_score_fails(d.pick_number, rec.avg_seen)
             THEN [signals |-> sig, outcome |-> "calc_score"]
             ELSE LET sig2 == IF scored
                              THEN add_signal(sig, rec.color,
                                              calc_score(d.pick_number, rec.avg_seen))
                              ELSE sig
                  IN  IF print_card_fails(lookup, p, card_id)
                      THEN [signals |-> sig2, outcome |-> "print_card"]
                      ELSE pack_loop(lookup, p, sig2, d, Tail(ids))

\* lines 233-240, once the for loop ended with `loop`
after_loop(lookup, p, d, loop) ==
    IF loop.outcome # "ok"
    THEN [signals |-> loop.signals, outcome |-> loop.outcome, inventory |-> NoReport]
    ELSE IF get_archetype_fails(p)
    THEN [signals |-> loop.signals, outcome |-> "get_archetype", inventory |-> NoReport]
    ELSE IF ~is_final_pick(d.pack_number, d.pick_number)
    THEN [signals |-> loop.signals, outcome |-> "ok", inventory |-> NoReport]
    ELSE IF print_by_gih_winrate_fails(lookup, p, Values(p))
    THEN [signals |-> loop.signals, outcome |-> "print_inventory", inventory |-> NoReport]
    ELSE [signals |-> loop.signals, outcome |-> "ok",
          inventory |-> Table(print_by_gih_winrate(lookup, p, Values(p)))]

\* the signals, the inventory table and the outcome of process_pack(doc)
process_pack(lookup, p, sig, d) ==
    IF \E i \in 1..Len(d.card_ids) : rankingFails(lookup, p, d.card_ids[i], FALSE)
    THEN [signals |-> sig, outcome |-> "sorted", inventory |-> NoReport]
    ELSE LET key == [c \in Range(d.card_ids) |-> ranking(lookup, p, c, FALSE).avg_seen]
         IN  after_loop(lookup, p, d,
                        pack_loop(lookup, p, sig, d, sorted(d.card_ids, key, FALSE)))

-----------------------------------------------------------------------------
(* The events and their handlers *)

DraftIds == {"d1", "d2"}
Positions == {<<1, 1>>, <<1, 3>>, <<2, 14>>, <<3, 14>>}
Packs == {<<1, 2, 3>>, <<4, 1>>, <<5, 1>>, <<1, 9>>}
PickKeys == {<<1, 1>>, <<1, 2>>}
PickCards == {1, 3, 5}

PackDoc(id, pos, ids) ==
    [kind |-> "pack", draft_id |-> id, pack_number |-> pos[1], pick_number |-> pos[2],
     card_ids |-> ids, card_id |-> 0]

PickDoc(pos, id) ==
    [kind |-> "pick", draft_id |-> None, pack_number |-> pos[1], pick_number |-> pos[2],
     card_ids |-> <<>>, card_id |-> id]

NoDoc ==
    [kind |-> "none", draft_id |-> None, pack_number |-> 0, pick_number |-> 0,
     card_ids |-> <<>>, card_id |-> 0]

Keys(p) == {p[i].key : i \in 1..Len(p)}

\* self.picks[key] = card_id: a new key goes last, a known key keeps its place
set_pick(p, key, card_id) ==
    IF key \in Keys(p)
    THEN [i \in 1..Len(p) |-> IF p[i].key = key THEN [key |-> key, card |-> card_id] ELSE p[i]]
    ELSE Append(p, [key |-> key, card |-> card_id])

\* a new draft that keeps the signal totals of the old one
start_draft_keep_signals(cur, id) ==
    IF id # cur.draft_id
    THEN [draft_id |-> id, picks |-> <<>>, signals |-> cur.signals]
    ELSE cur

\* the draft state after the draft_id test of human_draft_pack
start_draft(cur, id) ==
    IF id # cur.draft_id
    THEN [draft_id |-> id, picks |-> <<>>, signals |-> EmptyDict]
    ELSE cur

Current == [draft_id |-> draft_id, picks |-> picks, signals |-> signals]

SignalTotal(sig) ==
    LET RECURSIVE Total(_)
        Total(ks) == IF ks = {} THEN 0
                     ELSE LET k == CHOOSE x \in ks : TRUE IN sig[k] + Total(ks \ {k})
    IN  Total(DOMAIN sig)

human_draft_pick(d) ==
    /\ phase = "running"
    /\ picks' = set_pick(picks, <<d.pack_number, d.pick_number>>, d.card_id)
    /\ doc' = d
    /\ outcome' = "ok"
    /\ inventory' = NoReport
    /\ pre' = Current
    /\ UNCHANGED <<phase, file_present, mtime, snapshot, now, requests, raw_rankings,
                   ranking_lookup, draft_id, signals>>

human_draft_pack(d) ==
    /\ phase = "running"
    /\ \E cur \in {start_draft(Current, d.draft_id)} :
          /\ SignalTotal(cur.signals) <= MaxSignal
          /\ \E res \in {process_pack(ranking_lookup, cur.picks, cur.signals, d)} :
                /\ draft_id' = cur.draft_id
                /\ picks' = cur.picks
                /\ signals' = res.signals
                /\ outcome' = res.outcome
                /\ inventory' = res.inventory
    /\ doc' = d
    /\ pre' = Current
    /\ UNCHANGED <<phase, file_present, mtime, snapshot, now, requests, raw_rankings,
                   ranking_lookup>>

-----------------------------------------------------------------------------
(* Processor.__init__: load_rankings / fetch_rankings, then process_rankings *)

\* mtime <= now - 5 days
is_stale_le(t, today) == t <= today - FreshDays

\* mtime < datetime.datetime.now() - datetime.timedelta(days=5)
is_stale(t, today) == t < today - FreshDays

\* the requests fetch_rankings issues: the aggregate first, then archetypes[:-1]
fetch_requests == <<"XX">> \o two_color_archetypes

\* load_rankings raises FileNotFoundError or finds the snapshot stale
must_fetch(present, t, today) == ~present \/ is_stale(t, today)

Startup ==
    /\ phase = "boot"
    /\ \E answer \in RemoteAnswers :
          LET fetch == must_fetch(file_present, mtime, now)
              raw == IF fetch THEN answer ELSE snapshot
          IN  /\ requests' = IF fetch THEN fetch_requests ELSE <<>>
              /\ snapshot' = raw
              /\ file_present' = TRUE
              /\ mtime' = IF fetch THEN now ELSE mtime
              /\ IF process_rankings_fails(raw)
                 THEN /\ phase' = "crashed"
                      /\ raw_rankings' = raw
                      /\ ranking_lookup' = EmptyDict
                 ELSE /\ phase' = "running"
                      /\ raw_rankings' = processed_raw(raw)
                      /\ ranking_lookup' = process_rankings(raw)
    /\ draft_id' = None
    /\ picks' = <<>>
    /\ signals' = EmptyDict
    /\ UNCHANGED <<now, doc, outcome, inventory, pre>>

-----------------------------------------------------------------------------
(* Specifications *)

NoDraft == [draft_id |-> None, picks |-> <<>>, signals |-> EmptyDict]

FreshDraft ==
    /\ draft_id = None
    /\ picks = <<>>
    /\ signals = EmptyDict
    /\ doc = NoDoc
    /\ outcome = "ok"
    /\ inventory = NoReport
    /\ pre = NoDraft

\* Before Processor(): any clock, the snapshot absent or of any age and content
InitBoot ==
    /\ phase = "boot"
    /\ now \in 0..MaxTime
    /\ \/ /\ file_present = FALSE
          /\ mtime = 0
          /\ snapshot = EmptyDict
       \/ /\ file_present = TRUE
          /\ mtime \in 0..MaxTime
          /\ snapshot \in {DiskRankings, RemoteRankings, RemoteRankingsGap}
    /\ requests = <<>>
    /\ raw_rankings = EmptyDict
    /\ ranking_lookup = EmptyDict
    /\ FreshDraft

NextBoot == Startup

SpecBoot == InitBoot /\ [][NextBoot]_vars

\* A Processor constructed from a snapshot that was exactly FreshDays old
Init ==
    /\ phase = "running"
    /\ now = MaxTime
    /\ file_present = TRUE
    /\ mtime = MaxTime - FreshDays
    /\ snapshot = DiskRankings
    /\ requests = <<>>
    /\ raw_rankings = processed_raw(DiskRankings)
    /\ ranking_lookup = process_rankings(DiskRankings)
    /\ FreshDraft

PackShown == \E id \in DraftIds, pos \in Positions, ids \in Packs :
                human_draft_pack(PackDoc(id, pos, ids))

CardPicked == \E pos \in PickKeys, id \in PickCards : human_draft_pick(PickDoc(pos, id))

Next == PackShown \/ CardPicked

Spec == Init /\ [][Next]_vars

\* The same Processor with more picks and fewer packs, for the archetype inference
ArchetypeKeys == {<<1, k>> : k \in 1..MaxPicks}
ArchetypeCards == {1, 3, 4, 5}

PackShownOne == \E id \in DraftIds : human_draft_pack(PackDoc(id, <<1, 3>>, <<1, 2, 3>>))

CardPickedAny ==
    \E pos \in ArchetypeKeys, id \in ArchetypeCards : human_draft_pick(PickDoc(pos, id))

NextArchetype == PackShownOne \/ CardPickedAny

SpecArchetype == Init /\ [][NextArchetype]_vars

-----------------------------------------------------------------------------
(* Properties *)

\* the signal totals the last pack event started from: none after a draft reset
Base == IF doc.draft_id # pre.draft_id THEN EmptyDict ELSE pre.signals

NoLower(before, after) ==
    \A c \in DOMAIN before : c \in DOMAIN after /\ after[c] >= before[c]

\* C1: a pack-shown event with a new draft identifier stores the identifier and
\* empties the picks and the signal totals before the pack is processed (what is
\* left is what this pack alone adds to empty totals); a pack-shown event with
\* the stored identifier removes no pick and lowers no signal total.
C1_DraftReset ==
    doc.kind = "pack" =>
        IF doc.draft_id # pre.draft_id
        THEN /\ draft_id = doc.draft_id
             /\ picks = <<>>
             /\ signals = process_pack(ranking_lookup, <<>>, EmptyDict, doc).signals
        ELSE /\ draft_id = pre.draft_id
             /\ picks = pre.picks
             /\ NoLower(pre.signals, signals)

C1_Witness ==
    /\ doc.kind = "pack"
    /\ doc.draft_id # pre.draft_id
    /\ pre.picks # <<>>
    /\ SignalTotal(pre.signals) > 0
    /\ picks = <<>>
    /\ SignalTotal(signals) > 0

\* the record process_pack reads for an offered card
Offered(i) == ranking_lookup[get_archetype(picks)][db[doc.card_ids[i]].name]

\* the sum, over the offered cards of color identity c, of worth[floor] * muls[pick]
Gain(c) ==
    SumSeq([i \in 1..Len(doc.card_ids) |->
              IF Offered(i).color = c
              THEN worth[Offered(i).avg_seen \div 100] * muls[doc.pick_number]
              ELSE 0])

OfferedColors == {Offered(i).color : i \in 1..Len(doc.card_ids)}

\* C2: a completed pack-shown event with pick position in 2..15 and every
\* popularity bucket in 1..15 raises, in pack 1, the total of each color identity
\* by the sum of worth[floor(popularity)] * muls[pick] over the offered cards of
\* that identity (the identity verbatim as key), and changes no total otherwise.
C2_SignalGain ==
    ( /\ doc.kind = "pack"
      /\ outcome = "ok"
      /\ doc.pick_number \in 2..15
      /\ \A i \in 1..Len(doc.card_ids) : Offered(i).avg_seen \div 100 \in 1..15 )
    => IF doc.pack_number = 1
       THEN /\ DOMAIN signals = DOMAIN Base \cup OfferedColors
            /\ \A c \in DOMAIN signals : signals[c] = Sig(Base, c) + Gain(c)
       ELSE signals = Base

C2_Witness ==
    /\ doc.kind = "pack"
    /\ outcome = "ok"
    /\ doc.pack_number = 1
    /\ doc.draft_id = pre.draft_id
    /\ Len(doc.card_ids) = 3
    /\ Sig(pre.signals, "W") > 0
    /\ Sig(signals, "W") = Sig(pre.signals, "W") + 200
    /\ Sig(signals, "U") = Sig(pre.signals, "U") + 60

\* how often card_id occurs in the sequence ids
Occurrences(ids, card_id) == Cardinality({i \in 1..Len(ids) : ids[i] = card_id})

\* the picks with more than MinGames games in the inferred archetype
Kept ==
    {i \in 1..Len(picks) :
        ranking_lookup[get_archetype(picks)][db[picks[i].card].name].ever_drawn_game_count
            > MinGames}

\* C3: at the final pick (pack 3, pick 14) the inventory report lists exactly the
\* picked cards whose game count in the inferred archetype is above 200; at any
\* other position, and for a card-picked event, there is no inventory report.
C3_Inventory ==
    /\ inventory.printed =>
          /\ doc.kind = "pack"
          /\ doc.pack_number = 3 /\ doc.pick_number = 14
          /\ Len(inventory.rows) = Cardinality(Kept)
          /\ \A card_id \in DOMAIN db :
                Occurrences(inventory.rows, card_id)
                    = Cardinality({i \in Kept : picks[i].card = card_id})
    /\ ( /\ doc.kind = "pack"
         /\ doc.pack_number = 3 /\ doc.pick_number = 14
         /\ outcome = "ok" ) => inventory.printed

C3_Witness ==
    /\ inventory.printed
    /\ Len(picks) = 2
    /\ Len(inventory.rows) = 1

\* the orders in which the entries of the picks mapping p can have been inserted
Orderings(p) == {q \in [1..Len(p) -> Range(p)] : Range(q) = Range(p)}

Tally(p, c) == Count(Symbols(p), c)

Seen(p) == {c \in colors : Tally(p, c) > 0}

\* the two most frequent colors are the same set whatever the tie-break
UniqueTopTwo(p) ==
    \/ Cardinality(Seen(p)) <= 2
    \/ \E a, b \in Seen(p) :
          /\ a # b
          /\ \A c \in Seen(p) \ {a, b} : Tally(p, c) < Tally(p, a) /\ Tally(p, c) < Tally(p, b)

\* C4 as claimed: the picks mapping alone decides the inferred archetype, in
\* whatever order its entries were inserted.
C4_OrderIrrelevant == \A q \in Orderings(picks) : get_archetype(q) = get_archetype(picks)

\* C4 as amended: the insertion order is irrelevant to the inferred archetype
\* when the picks show at most two colors or their two most frequent colors are
\* strictly more frequent than every other color.
C4_OrderIrrelevantNoTie ==
    UniqueTopTwo(picks) =>
        \A q \in Orderings(picks) : get_archetype(q) = get_archetype(picks)

C4_Witness ==
    /\ Len(picks) = 2
    /\ Cardinality(Seen(picks)) = 3
    /\ UniqueTopTwo(picks)
    /\ doc.kind = "pick"

\* position of the first cost symbol c among all picks
FirstMet(p, c) == CHOOSE i \in 1..Len(Symbols(p)) :
                     Symbols(p)[i] = c /\ \A j \in 1..(i - 1) : Symbols(p)[j] # c

\* the colors ahead of c: more frequent, or as frequent and met earlier
Ahead(p, c) ==
    {x \in Seen(p) \ {c} :
        \/ Tally(p, x) > Tally(p, c)
        \/ Tally(p, x) = Tally(p, c) /\ FirstMet(p, x) < FirstMet(p, c)}

\* C5: with two or more colors among the picked cards' cost symbols, the
\* inferred archetype is the two-color tag made of the two most frequent colors
\* (ties to the color met first), whichever of the two is the more frequent;
\* it is never "XX".
C5_TwoColorTag ==
    Cardinality(Seen(picks)) >= 2 =>
        /\ get_archetype(picks) \in Range(two_color_archetypes)
        /\ Range(chars[get_archetype(picks)])
              = {upper[c] : c \in {x \in Seen(picks) : Cardinality(Ahead(picks, x)) < 2}}

C5_Witness ==
    /\ Cardinality(Seen(picks)) = 3
    /\ ~UniqueTopTwo(picks)
    /\ get_archetype(picks) = "WR"
    /\ Tally(picks, "r") > Tally(picks, "w")

\* C6: with fewer than two colors among the picked cards' cost symbols (no
\* picks, generic symbols only, a single color) the inferred archetype is "XX",
\* in every draft state.
C6_ColdStart == Cardinality(Seen(picks)) < 2 => get_archetype(picks) = "XX"

C6_Witness ==
    /\ Len(picks) = 2
    /\ Cardinality(Seen(picks)) = 1
    /\ \E i \in 1..2 : Range(db[picks[i].card].cost) \cap colors = {}
    /\ get_archetype(picks) = "XX"

\* C7: the constructor fetches (all eleven archetypes, then overwrites the
\* snapshot) exactly when the snapshot is absent or older than 5 days; a snapshot
\* aged exactly 5 days is loaded from disk with no fetch.
C7_RefreshIffStale ==
    [][phase = "boot" /\ phase' # "boot" =>
          IF ~file_present \/ now - mtime > 5
          THEN /\ Len(requests') = 11
               /\ Range(requests') = Range(archetypes)
               /\ file_present' /\ mtime' = now
               /\ snapshot' \in RemoteAnswers
          ELSE /\ requests' = <<>>
               /\ snapshot' = snapshot /\ mtime' = mtime]_vars

C7_Witness ==
    /\ phase = "running"
    /\ requests = <<>>
    /\ now - mtime = 5
    /\ snapshot = DiskRankings

\* the record of card `name` in the snapshot's list for archetype a
Raw(a, name) == LastNamed(snapshot[a], name)

\* C8 as claimed: every record of the index, in every archetype, has the
\* improvement win rate of its raw record plus the per-color bonus, plus the
\* cross-archetype correction for the aggregate "XX"; no other field differs.
C8_BonusEveryArchetype ==
    phase = "running" =>
        \A a \in Range(archetypes) : \A name \in DOMAIN ranking_lookup[a] :
            ranking_lookup[a][name] =
                [Raw(a, name) EXCEPT !.drawn_improvement_win_rate =
                    @ + color_bonus(Raw(a, name))
                      + (IF a = "XX" THEN across_archetype_bonus(snapshot, Raw(a, name))
                         ELSE 0)]

\* scores over the whole of both tables
ScoreMonotone ==
    /\ \A b \in 1..15 : \A p \in 2..14 : calc_score(p, 100 * b) <= calc_score(p + 1, 100 * b)
    /\ \A p \in 2..15 : \A b \in 1..14 : calc_score(p, 100 * b) >= calc_score(p, 100 * (b + 1))
    /\ \A p \in 2..15 : \A b \in 1..15 : calc_score(p, 100 * b) >= 0

\* C9: the score does not fall as the pick position rises over 2..15, does not
\* rise as the popularity bucket rises over 1..15, and is never negative; no
\* event within one draft lowers a signal total.
C9_ScoreMonotone ==
    /\ ScoreMonotone
    /\ doc.kind = "pack" /\ doc.draft_id = pre.draft_id => NoLower(pre.signals, signals)
    /\ doc.kind = "pick" => signals = pre.signals

C9_Witness ==
    /\ doc.kind = "pack"
    /\ doc.draft_id = pre.draft_id
    /\ pre.signals # EmptyDict
    /\ \E c \in DOMAIN pre.signals : signals[c] > pre.signals[c]
    /\ \E c \in DOMAIN signals : c \notin DOMAIN pre.signals

\* C10 as claimed: a pack-shown event of the current draft whose report aborts
\* leaves the signal totals and the picks as they were.
C10_AbortKeepsSignals ==
    doc.kind = "pack" /\ doc.draft_id = pre.draft_id /\ outcome # "ok" =>
        signals = pre.signals /\ picks = pre.picks

=============================================================================
